---- MODULE Spec2Model ----
(***************************************************************************)
(* A model of backbone-for-react: the nested-path get/set of               *)
(* ReactBackbone.Model (src/jsog-decode.js:100-225), the id/ref graph       *)
(* decoder (src/jsog-decode.js:15-74) and the paging and sorting state of   *)
(* ReactBackbone.Collection (src/jsog-decode.js:235-625).                   *)
(*                                                                         *)
(* JavaScript values are modelled with their identity: every object and    *)
(* array lives in `heap` at an address, and a value is either a primitive  *)
(* or a reference to an address.  Two references are the same object iff   *)
(* they hold the same address.                                             *)
(*                                                                         *)
(* Abstractions: attribute values are JSON-like data (primitives, plain    *)
(* objects, arrays), never Backbone models, so `typeof val.get` is never   *)
(* "function" in get; property names are data keys that do not collide     *)
(* with built-in or prototype properties (length, constructor, ...); a     *)
(* dotted string is represented by the sequence of its segments.  Page     *)
(* numbers passed to the collection are finite numbers given in halves, or *)
(* not numbers at all; page sizes and record counts are whole numbers, and *)
(* page sizes are positive.                                                *)
(***************************************************************************)
EXTENDS Integers, Sequences, FiniteSets, TLC

VARIABLES
  heap,        \* address -> object: [cls, f] ; f maps own property names to values
  attrs,       \* the model's attribute bag (Backbone's this.attributes)
  events,      \* notifications fired by the last Model.set call, in order
  threw,       \* the last call ended by throwing a TypeError
  held,        \* the value the caller got from its latest Model.get
  hist,        \* the calls made on the model so far, oldest first
  input,       \* the argument of the last decode call
  output,      \* what the last decode call returned
  found,       \* the id registry the last decode call ended with
  prevIds,     \* the ids registered by the decode calls before the last one
  base,        \* the heap as it was when the last decode call began
  dop,         \* the last decode call: "none", "decode" (a payload), "again" (its own output)
  dcalls,      \* number of decode calls made
  _pageNo,     \* the collection's current page
  _pageSize,   \* the collection's page size
  _totalRecords, \* the record count the server reported, or null
  server,      \* the collection is paged and sorted by the server
  models,      \* the number of models the collection holds (this.models.length)
  sorts,       \* the applied sorts, first one first
  chist        \* the calls made on the collection so far, oldest first

vars == <<heap, attrs, events, threw, held, hist,
          input, output, found, prevIds, base, dop, dcalls,
          _pageNo, _pageSize, _totalRecords, server, models, sorts, chist>>

modelVars  == <<attrs, events, threw, held, hist>>
decodeVars == <<input, output, found, prevIds, base, dop, dcalls>>
collVars   == <<_pageNo, _pageSize, _totalRecords, server, models, sorts, chist>>

----------------------------------------------------------------------------
(* Values *)

Undef    == [t |-> "undefined", v |-> "", a |-> 0]
Null     == [t |-> "null", v |-> "", a |-> 0]
Num(s)   == [t |-> "number", v |-> s, a |-> 0]
Str(s)   == [t |-> "string", v |-> s, a |-> 0]
Bool(s)  == [t |-> "boolean", v |-> s, a |-> 0]
Ref(n)   == [t |-> "ref", v |-> "", a |-> n]

NoFields == [k \in {} |-> Undef]

IsRef(x) == x.t = "ref"

\* src/jsog-decode.js:5-7
nullOrUndefined(val) == val.t = "undefined" \/ val.t = "null"

\* src/jsog-decode.js:1-3
isArray(h, x) == IsRef(x) /\ x.a \in DOMAIN h /\ h[x.a].cls = "Array"

\* JavaScript's typeof x === "object": objects, arrays and null
TypeofObject(x) == IsRef(x) \/ x.t = "null"

\* Object.prototype.toString of a primitive id: the number 1 and the string "1"
\* both give the string "1"
toString(x) == Str(x.v)

\* JavaScript truthiness (the condition of `if (id)`)
Truthy(x) ==
  CASE x.t = "string"  -> x.v # ""
    [] x.t = "number"  -> x.v # "0"
    [] x.t = "boolean" -> x.v = "true"
    [] x.t = "ref"     -> TRUE
    [] OTHER           -> FALSE

\* own property read x[k] on an object or array (undefined when absent)
Prop(h, x, k) ==
  IF IsRef(x) /\ x.a \in DOMAIN h /\ k \in DOMAIN h[x.a].f THEN h[x.a].f[k] ELSE Undef

\* x[k] = val on the object or array at address adr
PutField(h, adr, k, val) ==
  [h EXCEPT ![adr].f = [j \in (DOMAIN @) \cup {k} |-> IF j = k THEN val ELSE @[j]]]

\* a new object at the next free address
Alloc(h, cls, f) == Append(h, [cls |-> cls, f |-> f])

IndexKeys == {"0", "1", "2"}

\* the outcome of evaluating x.k or x[k] = v with x null or undefined
TypeError == [t |-> "TypeError", v |-> "", a |-> 0]

\* JavaScript's val[pc]: throws on null and undefined, undefined on a missing key
Lookup(h, val, pc) ==
  IF val.t = "TypeError" \/ nullOrUndefined(val) THEN TypeError ELSE Prop(h, val, pc)

\* the structure below a value, identities forgotten; an array counts its
\* elements only, as underscore's isEqual does
RECURSIVE Deep(_, _)
Deep(h, x) ==
  IF IsRef(x)
  THEN LET o == h[x.a]
           keys == IF o.cls = "Array" THEN (DOMAIN o.f) \cap IndexKeys ELSE DOMAIN o.f
       IN [t |-> o.cls, v |-> "", f |-> [k \in keys |-> Deep(h, o.f[k])]]
  ELSE [t |-> x.t, v |-> x.v, f |-> NoFields]

\* underscore's _.isEqual: deep structural equality
isEqual(h, x, y) == Deep(h, x) = Deep(h, y)

\* the structure below a value with every own property, identities forgotten
RECURSIVE Full(_, _)
Full(h, x) ==
  IF IsRef(x)
  THEN [t |-> h[x.a].cls, v |-> "", f |-> [k \in DOMAIN h[x.a].f |-> Full(h, h[x.a].f[k])]]
  ELSE [t |-> x.t, v |-> x.v, f |-> NoFields]

\* what a reader of the whole bag sees
DeepBag(h, at) == [k \in DOMAIN at |-> Full(h, at[k])]

\* underscore's _.clone: a shallow copy of an object, slice() of an array,
\* the value itself for a primitive
clone(h, x) ==
  IF ~IsRef(x) THEN [h |-> h, val |-> x]
  ELSE LET o == h[x.a]
           f == IF o.cls = "Array"
                THEN [k \in (DOMAIN o.f) \cap IndexKeys |-> o.f[k]]
                ELSE o.f
       IN [h |-> Alloc(h, o.cls, f), val |-> Ref(Len(h) + 1)]

----------------------------------------------------------------------------
(* ReactBackbone.Model *)

\* Backbone.Model.prototype.get: this.attributes[attr]
oldGet(at, k) == IF k \in DOMAIN at THEN at[k] ELSE Undef

\* get's loop without its test for null and undefined
RECURSIVE getWalkUnguarded(_, _, _)
getWalkUnguarded(h, val, pcs) ==
  IF Len(pcs) > 0
  THEN getWalkUnguarded(h, Lookup(h, val, Head(pcs)), Tail(pcs))
  ELSE val

\* the while loop of get, src/jsog-decode.js:117-124
RECURSIVE getWalk(_, _, _)
getWalk(h, val, pcs) ==
  IF Len(pcs) > 0 /\ val.t # "undefined" /\ val.t # "null"
  THEN getWalk(h, Lookup(h, val, Head(pcs)), Tail(pcs))
  ELSE val

\* Model.get(attribute), attribute a dotted string given by its pieces
get(h, at, pcs) ==
  IF Len(pcs) = 1 THEN oldGet(at, pcs[1])
  ELSE getWalk(h, oldGet(at, Head(pcs)), Tail(pcs))

\* Backbone.Model.prototype.set(key, val): this.attributes[key] = val
oldSet(at, k, val) ==
  [j \in (DOMAIN at) \cup {k} |-> IF j = k THEN val ELSE at[j]]

\* a notification as a listener meets it: its name and the bag it can read
ChangeAttr(pcs, h, at) == [kind |-> "change:", name |-> pcs, seen |-> DeepBag(h, at)]
Change(h, at)          == [kind |-> "change", name |-> <<>>, seen |-> DeepBag(h, at)]

\* the while (pcs.length > 1) loop of set, src/jsog-decode.js:171-179:
\* every step reads and writes toSet[nextPc]
RECURSIVE setWalk(_, _, _, _)
setWalk(h, toSet, ptr, pcs) ==
  IF Len(pcs) > 1
  THEN LET nextPc == Head(pcs)
           x      == Lookup(h, toSet, nextPc)
       IN IF x.t = "TypeError"
          THEN [h |-> h, ptr |-> ptr, err |-> TRUE]
          ELSE IF ~TypeofObject(x)
               THEN LET h1 == PutField(Alloc(h, "Object", NoFields), toSet.a,
                                       nextPc, Ref(Len(h) + 1))
                    IN setWalk(h1, toSet, Prop(h1, toSet, nextPc), Tail(pcs))
               ELSE setWalk(h, toSet, x, Tail(pcs))
  ELSE [h |-> h, ptr |-> ptr, err |-> FALSE]

\* the nested branch of one pair, src/jsog-decode.js:163-191
setNested(st, attribute, value, topLevelValue) ==
  LET firstPc == Head(attribute)
      fresh   == ~TypeofObject(topLevelValue)
      h0      == IF fresh THEN Alloc(st.h, "Object", NoFields) ELSE st.h
      toSet   == IF fresh THEN Ref(Len(st.h) + 1) ELSE topLevelValue
      w       == setWalk(h0, toSet, toSet, Tail(attribute))
      lastPc  == attribute[Len(attribute)]
      oldVal  == get(w.h, st.at, attribute)
  IN IF w.err THEN [st EXCEPT !.h = w.h, !.err = TRUE]
     ELSE IF isEqual(w.h, oldVal, value) THEN [st EXCEPT !.h = w.h]
     ELSE IF ~IsRef(w.ptr) THEN [st EXCEPT !.h = w.h, !.err = TRUE, !.trig = TRUE]
     ELSE LET h2  == PutField(w.h, w.ptr.a, lastPc, value)
              at2 == oldSet(st.at, firstPc, toSet)
          IN [h |-> h2, at |-> at2, err |-> FALSE, trig |-> TRUE,
              ev |-> Append(st.ev, ChangeAttr(attribute, h2, at2))]

\* the top-level branch of one pair, src/jsog-decode.js:192-200
setTop(st, attribute, value, topLevelValue) ==
  IF isEqual(st.h, value, topLevelValue) THEN st
  ELSE LET at2 == oldSet(st.at, Head(attribute), value)
       IN [st EXCEPT !.at = at2, !.trig = TRUE,
                     !.ev = Append(st.ev, ChangeAttr(attribute, st.h, at2))]

\* the body of _.each for one (value, attribute), src/jsog-decode.js:151-201
setPair(st, attribute, value) ==
  LET c   == clone(st.h, get(st.h, st.at, <<Head(attribute)>>))
      st1 == [st EXCEPT !.h = c.h]
  IN IF Len(attribute) > 1
     THEN setNested(st1, attribute, value, c.val)
     ELSE setTop(st1, attribute, value, c.val)

\* _.each(attrHash, ...): the pairs in insertion order; a throw ends the call
RECURSIVE setEach(_, _)
setEach(st, pairs) ==
  IF Len(pairs) = 0 \/ st.err THEN st
  ELSE setEach(setPair(st, Head(pairs).attribute, Head(pairs).value), Tail(pairs))

\* set with every change:<path> notification held back until all pairs are done
setDeferred(h, at, pairs) ==
  LET st  == setEach([h |-> h, at |-> at, ev |-> <<>>, err |-> FALSE, trig |-> FALSE],
                     pairs)
      evs == [i \in 1..Len(st.ev) |-> [st.ev[i] EXCEPT !.seen = DeepBag(st.h, st.at)]]
  IN IF st.trig /\ ~st.err
     THEN [st EXCEPT !.ev = Append(evs, Change(st.h, st.at))]
     ELSE [st EXCEPT !.ev = evs]

\* Model.set with a string or an object first argument, src/jsog-decode.js:135-206
set(h, at, pairs) ==
  LET st == setEach([h |-> h, at |-> at, ev |-> <<>>, err |-> FALSE, trig |-> FALSE],
                    pairs)
  IN IF st.trig /\ ~st.err
     THEN [st EXCEPT !.ev = Append(st.ev, Change(st.h, st.at))]
     ELSE st

----------------------------------------------------------------------------
(* The decoder, src/jsog-decode.js:9-74 *)

JSOG_OBJECT_DECODED == "__jsogObjectDecoded"

\* for (key in encoded): own keys in insertion order
KeyOrder == <<"@id", "@ref", "next", JSOG_OBJECT_DECODED>>
IndexOrder == <<"0", "1", "2">>

\* the depth of calls at which the engine throws RangeError
StackLimit == 12

RangeError == [t |-> "RangeError", v |-> "", a |-> 0]

\* a decoder that never recognises its own output
isDecodedNever(h, encoded) == FALSE

\* encoded[JSOG_OBJECT_DECODED] === true, src/jsog-decode.js:22
isDecoded(h, encoded) == Prop(h, encoded, JSOG_OBJECT_DECODED) = Bool("true")

\* x = encoded[k]; if (x != null) x = x.toString(), src/jsog-decode.js:25-28, 33-36
coerced(h, encoded, k) ==
  LET x == Prop(h, encoded, k) IN IF ~nullOrUndefined(x) THEN toString(x) ELSE x

\* found[ref], src/jsog-decode.js:30
lookupFound(fnd, ref) == IF ref.v \in DOMAIN fnd THEN fnd[ref.v] ELSE Undef

\* a decoder that registers the source node instead of the result
registerSource(fnd, id, encoded, result) ==
  IF Truthy(id)
  THEN [k \in (DOMAIN fnd) \cup {id.v} |-> IF k = id.v THEN encoded ELSE fnd[k]]
  ELSE fnd

\* if (id) found[id] = result, src/jsog-decode.js:37-39
register(fnd, id, encoded, result) ==
  IF Truthy(id)
  THEN [k \in (DOMAIN fnd) \cup {id.v} |-> IF k = id.v THEN result ELSE fnd[k]]
  ELSE fnd

RECURSIVE doDecode(_, _, _)
RECURSIVE decodeFields(_, _, _, _, _)
RECURSIVE decodeElems(_, _, _, _, _)

\* the for-in loop of decodeObject, src/jsog-decode.js:40-47
decodeFields(st, encoded, result, keys, depth) ==
  IF Len(keys) = 0 \/ st.err THEN st
  ELSE LET key == Head(keys)
       IN IF key \in DOMAIN st.h[encoded.a].f /\ key # "@id"
          THEN LET d == doDecode(st, Prop(st.h, encoded, key), depth + 1)
               IN decodeFields([d EXCEPT !.h = IF d.err THEN d.h
                                               ELSE PutField(d.h, result.a, key, d.val)],
                               encoded, result, Tail(keys), depth)
          ELSE decodeFields(st, encoded, result, Tail(keys), depth)

\* decodeObject, src/jsog-decode.js:20-50
decodeObject(st, encoded, depth) ==
  IF isDecoded(st.h, encoded) THEN [st EXCEPT !.val = encoded]
  ELSE LET ref == coerced(st.h, encoded, "@ref")
       IN IF ~nullOrUndefined(ref)
          THEN [st EXCEPT !.val = lookupFound(st.found, ref)]
          ELSE LET result == Ref(Len(st.h) + 1)
                   id     == coerced(st.h, encoded, "@id")
                   st1    == [st EXCEPT !.h = Alloc(st.h, "Object", NoFields),
                                        !.found = register(st.found, id, encoded, result)]
                   st2    == decodeFields(st1, encoded, result, KeyOrder, depth)
               IN IF st2.err THEN st2
                  ELSE [st2 EXCEPT !.h = PutField(st2.h, result.a, JSOG_OBJECT_DECODED,
                                                  Bool("true")),
                                   !.val = result]

\* the loop of decodeArray, src/jsog-decode.js:56-59
decodeElems(st, encoded, results, idx, depth) ==
  IF Len(idx) = 0 \/ st.err \/ Head(idx) \notin DOMAIN st.h[encoded.a].f THEN st
  ELSE LET d == doDecode(st, Prop(st.h, encoded, Head(idx)), depth + 1)
       IN decodeElems([d EXCEPT !.h = IF d.err THEN d.h
                                      ELSE PutField(d.h, results.a, Head(idx), d.val)],
                      encoded, results, Tail(idx), depth)

\* decodeArray, src/jsog-decode.js:51-62
decodeArray(st, encoded, depth) ==
  LET results == Ref(Len(st.h) + 1)
      st1     == decodeElems([st EXCEPT !.h = Alloc(st.h, "Array", NoFields)],
                             encoded, results, IndexOrder, depth)
  IN IF st1.err THEN st1 ELSE [st1 EXCEPT !.val = results]

\* doDecode, src/jsog-decode.js:18-72
doDecode(st, encoded, depth) ==
  IF depth > StackLimit THEN [st EXCEPT !.err = TRUE, !.val = RangeError]
  ELSE IF nullOrUndefined(encoded) THEN [st EXCEPT !.val = encoded]
  ELSE IF isArray(st.h, encoded) THEN decodeArray(st, encoded, depth)
  ELSE IF IsRef(encoded) THEN decodeObject(st, encoded, depth)
  ELSE [st EXCEPT !.val = encoded]

NoneFound == [k \in {} |-> Undef]

\* a decoder whose registry outlives the call
decodeLeaky(h, encoded) ==
  doDecode([h |-> h, found |-> found, val |-> Undef, err |-> FALSE], encoded, 1)

\* module.exports: found = {}; return doDecode(encoded), src/jsog-decode.js:15-17, 73
decode(h, encoded) ==
  doDecode([h |-> h, found |-> NoneFound, val |-> Undef, err |-> FALSE], encoded, 1)

----------------------------------------------------------------------------
(* ReactBackbone.Collection, src/jsog-decode.js:235-625 *)

\* the maximum size of the sorts array, src/jsog-decode.js:258
maxSorts == 3

\* a number passed by the caller, given in halves (NumArg(5) is 2.5), or a
\* value that is not a number (a string, undefined, NaN)
NumArg(twice) == [num |-> TRUE, twice |-> twice]
NotANumber    == [num |-> FALSE, twice |-> 0]

\* _totalRecords: null, or a count
NoRecords  == [null |-> TRUE, n |-> 0]
Records(n) == [null |-> FALSE, n |-> n]

\* Math.round of a number given in halves: the nearest integer, a half goes up
round(twice) == (twice + 1) \div 2

\* Math.ceil(a / b) for a positive b
ceil(a, b) == (a + b - 1) \div b

\* Math.min and Math.max
min(a, b) == IF a < b THEN a ELSE b
max(a, b) == IF a > b THEN a ELSE b

\* size(), src/jsog-decode.js:329-335; Backbone's size() is this.models.length
size(srv, total, len) ==
  IF srv THEN (IF ~total.null THEN total.n ELSE len) ELSE len

\* getNumPages(), src/jsog-decode.js:393-395
getNumPages(srv, total, len, ps) == ceil(size(srv, total, len), ps)

\* validatePageNo() applied to the page number just assigned,
\* src/jsog-decode.js:401-416
validatePageNo(pageNo, srv, total, ps) ==
  IF ~pageNo.num THEN 0
  ELSE LET rounded == round(pageNo.twice)
           capped  == IF srv /\ ~total.null
                      THEN min(ceil(total.n, ps) - 1, rounded)
                      ELSE rounded
       IN max(0, capped)

\* responseHeaderCount of parse, src/jsog-decode.js:425-426: 0 without an xhr,
\* else parseInt of the header, NaN when the header is missing or not a number
responseHeaderCount(options) ==
  IF options.xhr THEN options.header ELSE NumArg(0)

\* the server and _totalRecords that parse leaves, src/jsog-decode.js:427-433,
\* for an array response of the given length
parseCount(length, options) ==
  LET c == responseHeaderCount(options)
  IN IF c.num /\ c.twice > 2 * length
     THEN [server |-> TRUE, total |-> Records(max(length, c.twice \div 2))]
     ELSE [server |-> FALSE, total |-> Records(length)]

\* the sorts after addSort(attribute, desc), src/jsog-decode.js:553-564
addSort(srts, attribute, desc) ==
  IF attribute.t # "string" THEN srts
  ELSE <<[attribute |-> attribute.v, desc |-> Truthy(desc)]>> \o srts

----------------------------------------------------------------------------
(* Bounds and inputs *)

MaxOps     == 3      \* calls made on the model
MaxDecodes == 2      \* decode calls
MaxCollOps == 4      \* calls made on the collection

\* attribute paths, as the pieces of the dotted string
SetPaths == {<<"a">>, <<"a", "b">>, <<"a", "c">>, <<"a", "b", "c">>,
             <<"a", "b", "c", "d">>}
GetPaths == SetPaths \cup {<<"x">>}

\* the values a caller passes: primitives, and two literals built for the call
Prims == {Num("1"), Num("2"), Null}
ObjectLiteral == [t |-> "literal", v |-> "object", a |-> 0]
ArrayLiteral  == [t |-> "literal", v |-> "array", a |-> 0]
SetArgs == (SetPaths \X Prims) \cup ({<<"a">>} \X {ObjectLiteral, ArrayLiteral})

\* the argument of a call on the heap: { b: { c: 1 } }, [ 1 ] or a primitive
Literal(h, lit) ==
  IF lit = ObjectLiteral
  THEN LET h1 == Alloc(h, "Object", [k \in {"c"} |-> Num("1")])
       IN [h |-> Alloc(h1, "Object", [k \in {"b"} |-> Ref(Len(h) + 1)]),
           val |-> Ref(Len(h) + 2)]
  ELSE IF lit = ArrayLiteral
  THEN [h |-> Alloc(h, "Array", [k \in {"0"} |-> Num("1")]), val |-> Ref(Len(h) + 1)]
  ELSE [h |-> h, val |-> lit]

\* the mappings a caller passes to set(hash): two pairs, in insertion order
HashArgs ==
  {<<[attribute |-> pq[1], value |-> v], [attribute |-> pq[2], value |-> Num("2")]>> :
     pq \in {<<(<<"x">>), (<<"a", "b">>)>>, <<(<<"a", "b">>), (<<"x">>)>>},
     v \in {Num("1"), Num("2")}}

\* the nodes of a payload: plain, carrying an @id, or carrying a @ref; ids are
\* strings or numbers, and the empty string is an id like another
Ids == {Str("1"), Num("1"), Str("")}
NodeDescs ==
  {[atid |-> Undef, atref |-> Undef]}
    \cup {[atid |-> i, atref |-> Undef] : i \in Ids}
    \cup {[atid |-> Undef, atref |-> i] : i \in Ids}
Plain == [atid |-> Undef, atref |-> Undef]

\* a payload is one chain of nodes linked by "next", or an array of chains
Payloads ==
  {[top |-> "object", chains |-> <<(<<n>>)>>] : n \in NodeDescs}
    \cup {[top |-> "object", chains |-> <<(<<n, m>>)>>] : n, m \in NodeDescs}
    \cup {[top |-> "object", chains |-> <<(<<n, Plain, Plain, m>>)>>] : n, m \in NodeDescs}
    \cup {[top |-> "array", chains |-> <<(<<n>>), (<<m>>)>>] : n, m \in NodeDescs}
    \cup {[top |-> "array", chains |-> <<(<<n, m>>), (<<k>>)>>] : n, m, k \in NodeDescs}

\* the parsed payload on the heap
RECURSIVE LoadChain(_, _)
LoadChain(h, descs) ==
  IF Len(descs) = 0 THEN [h |-> h, val |-> Undef]
  ELSE LET rest == LoadChain(h, Tail(descs))
           d    == Head(descs)
           keys == (IF d.atid = Undef THEN {} ELSE {"@id"})
                     \cup (IF d.atref = Undef THEN {} ELSE {"@ref"})
                     \cup (IF Len(descs) > 1 THEN {"next"} ELSE {})
           f    == [k \in keys |-> IF k = "@id" THEN d.atid
                                   ELSE IF k = "@ref" THEN d.atref
                                   ELSE rest.val]
       IN [h |-> Alloc(rest.h, "Object", f), val |-> Ref(Len(rest.h) + 1)]

RECURSIVE LoadChains(_, _, _)
LoadChains(h, chains, vals) ==
  IF Len(chains) = 0 THEN [h |-> h, vals |-> vals]
  ELSE LET l == LoadChain(h, Head(chains))
       IN LoadChains(l.h, Tail(chains), Append(vals, l.val))

LoadPayload(p) ==
  LET l == LoadChains(<<>>, p.chains, <<>>)
  IN IF p.top = "object" THEN [h |-> l.h, val |-> l.vals[1]]
     ELSE [h |-> Alloc(l.h, "Array",
                       [k \in {IndexOrder[i] : i \in 1..Len(l.vals)} |->
                          l.vals[CHOOSE i \in 1..Len(l.vals) : IndexOrder[i] = k]]),
           val |-> Ref(Len(l.h) + 1)]

\* page numbers a caller passes: -1, 0, 1.5, 7 and something not a number
PageArgs == {NumArg(-2), NumArg(0), NumArg(3), NumArg(14), NotANumber}

\* page sizes a caller passes
PageSizes == {1, 2, 20}

\* the lengths of the responses parse is given, and the number of models
\* reset is given
Lengths == {0, 3}

\* the options parse is given: none, an xhr without the header, an xhr whose
\* header reports 2 or 5 records
ParseOptions ==
  {[xhr |-> FALSE, header |-> NotANumber], [xhr |-> TRUE, header |-> NotANumber],
   [xhr |-> TRUE, header |-> NumArg(4)], [xhr |-> TRUE, header |-> NumArg(10)]}

\* the arguments of addSort: a string attribute or not, desc given or not
SortArgs == {Str("name"), Num("1")} \X {Bool("true"), Undef}

\* one entry of the collection's call history
CollCall(op) ==
  [op |-> op,
   pageNo |-> _pageNo,
   numPages |-> getNumPages(server, _totalRecords, models, _pageSize)]

\* one entry of the call history
Call(op, pairs, h, err) ==
  [op |-> op,
   threw |-> err,
   pairs |-> [i \in 1..Len(pairs) |->
                [attribute |-> pairs[i].attribute, value |-> Deep(h, pairs[i].value)]],
   before |-> DeepBag(heap, attrs)]

----------------------------------------------------------------------------
(* The model's operations *)

Init ==
  /\ heap = <<>>
  /\ attrs = [k \in {} |-> Undef]
  /\ events = <<>>
  /\ threw = FALSE
  /\ held = Undef
  /\ hist = <<>>
  /\ input = Undef
  /\ output = Undef
  /\ found = NoneFound
  /\ prevIds = {}
  /\ base = <<>>
  /\ dop = "none"
  /\ dcalls = 0
  /\ _pageNo = 0
  /\ _pageSize = 20
  /\ _totalRecords = NoRecords
  /\ server = FALSE
  /\ models = 0
  /\ sorts = <<>>
  /\ chist = <<>>

\* a set call that reaches the _.each loop with these pairs
DoSet(op, h, pairs) ==
  LET r == set(h, attrs, pairs)
  IN /\ Len(hist) < MaxOps
     /\ heap' = r.h
     /\ attrs' = r.at
     /\ events' = r.ev
     /\ threw' = r.err
     /\ hist' = Append(hist, Call(op, pairs, h, r.err))
     /\ UNCHANGED <<held, decodeVars, collVars>>

\* model.set("a.b.c", value)
SetString(pcs, lit) ==
  LET l == Literal(heap, lit)
  IN DoSet("set", l.h, <<[attribute |-> pcs, value |-> l.val]>>)

\* model.set({ p: v, q: w })
SetHash(pairs) == DoSet("setHash", heap, pairs)

\* model.set([ v ]): _.each gives the pair (v, 0) and 0 is turned into "0"
SetArray(v) == DoSet("setArray", heap, <<[attribute |-> <<toString(Num("0")).v>>, value |-> v]>>)

\* model.set(null): typeof null is "object" and _.each(null) visits nothing
SetNull == DoSet("setNull", heap, <<>>)

\* Backbone.Model.prototype.set(key, val) with a key that is neither an object
\* nor a string: nothing for undefined, else attributes[String(key)] = val and
\* Backbone's own change:<key> and change notifications
SetOther(key, val) ==
  LET k   == toString(key).v
      chg == ~nullOrUndefined(key) /\ ~isEqual(heap, oldGet(attrs, k), val)
      at2 == IF nullOrUndefined(key) THEN attrs ELSE oldSet(attrs, k, val)
  IN /\ Len(hist) < MaxOps
     /\ attrs' = at2
     /\ events' = IF chg THEN <<ChangeAttr(<<k>>, heap, at2), Change(heap, at2)>> ELSE <<>>
     /\ threw' = FALSE
     /\ hist' = Append(hist, Call("setOther", <<[attribute |-> <<k>>, value |-> val]>>, heap, FALSE))
     /\ UNCHANGED <<heap, held, decodeVars, collVars>>

\* obj = model.get("a.b")
Get(pcs) ==
  LET r == get(heap, attrs, pcs)
  IN /\ Len(hist) < MaxOps
     /\ held' = IF r.t = "TypeError" THEN Undef ELSE r
     /\ threw' = (r.t = "TypeError")
     /\ hist' = Append(hist, Call("get", <<[attribute |-> pcs, value |-> Undef]>>, heap,
                                r.t = "TypeError"))
     /\ UNCHANGED <<heap, attrs, events, decodeVars, collVars>>

\* a decode call returns its value or ends with the engine's RangeError
DoDecode(op, h, encoded) ==
  LET r == decode(h, encoded)
  IN /\ dcalls < MaxDecodes
     /\ heap' = r.h
     /\ base' = h
     /\ input' = encoded
     /\ output' = r.val
     /\ found' = r.found
     /\ prevIds' = prevIds \cup DOMAIN found
     /\ dop' = op
     /\ dcalls' = dcalls + 1
     /\ UNCHANGED <<modelVars, collVars>>

\* decode(payload): the payload is fresh from the parser, and what earlier
\* calls made is no longer referenced
Decode(p) ==
  LET l == LoadPayload(p) IN DoDecode("decode", l.h, l.val)

\* decode(decode(x)): decode applied to what it returned
DecodeAgain ==
  /\ dop # "none"
  /\ DoDecode("again", heap, output)

NextDecode ==
  \/ \E p \in Payloads : Decode(p)
  \/ DecodeAgain

SpecDecode == Init /\ [][NextDecode]_vars

NextModel ==
  \/ \E arg \in SetArgs : SetString(arg[1], arg[2])
  \/ \E pairs \in HashArgs : SetHash(pairs)
  \/ \E v \in {Num("1")} : SetArray(v)
  \/ SetNull
  \/ \E key \in {Num("5"), Undef} : SetOther(key, Num("1"))
  \/ \E pcs \in GetPaths : Get(pcs)

SpecModel == Init /\ [][NextModel]_vars

\* setPageNo(pageNo), src/jsog-decode.js:350-354
SetPageNo(op, pageNo) ==
  /\ Len(chist) < MaxCollOps
  /\ _pageNo' = validatePageNo(pageNo, server, _totalRecords, _pageSize)
  /\ chist' = Append(chist, CollCall(op))
  /\ UNCHANGED <<heap, modelVars, decodeVars,
                 _pageSize, _totalRecords, server, models, sorts>>

\* prevPage(), src/jsog-decode.js:360-362
PrevPage == SetPageNo("prevPage", NumArg(2 * (_pageNo - 1)))

\* nextPage(), src/jsog-decode.js:368-370
NextPage == SetPageNo("nextPage", NumArg(2 * (_pageNo + 1)))

\* setPageSize(ps), src/jsog-decode.js:377-380
SetPageSize(ps) ==
  /\ Len(chist) < MaxCollOps
  /\ _pageSize' = ps
  /\ chist' = Append(chist, CollCall("setPageSize"))
  /\ UNCHANGED <<heap, modelVars, decodeVars,
                 _pageNo, _totalRecords, server, models, sorts>>

\* parse(response, options) with an array response, src/jsog-decode.js:424-444
Parse(length, options) ==
  LET r == parseCount(length, options)
  IN /\ Len(chist) < MaxCollOps
     /\ server' = r.server
     /\ _totalRecords' = r.total
     /\ chist' = Append(chist, CollCall("parse"))
     /\ UNCHANGED <<heap, modelVars, decodeVars, _pageNo, _pageSize, models, sorts>>

\* reset(models), src/jsog-decode.js:615-621; Backbone's reset replaces the
\* models by the ones given
Reset(length) ==
  /\ Len(chist) < MaxCollOps
  /\ _pageNo' = validatePageNo(NumArg(0), server, _totalRecords, _pageSize)
  /\ _totalRecords' = NoRecords
  /\ server' = FALSE
  /\ models' = length
  /\ chist' = Append(chist, CollCall("reset"))
  /\ UNCHANGED <<heap, modelVars, decodeVars, _pageSize, sorts>>

\* addSort(attribute, desc), src/jsog-decode.js:553-564
AddSort(attribute, desc) ==
  /\ Len(chist) < MaxCollOps
  /\ sorts' = addSort(sorts, attribute, desc)
  /\ chist' = Append(chist, CollCall("addSort"))
  /\ UNCHANGED <<heap, modelVars, decodeVars,
                 _pageNo, _pageSize, _totalRecords, server, models>>

\* resetSorts(), src/jsog-decode.js:468-471
ResetSorts ==
  /\ Len(chist) < MaxCollOps
  /\ sorts' = <<>>
  /\ chist' = Append(chist, CollCall("resetSorts"))
  /\ UNCHANGED <<heap, modelVars, decodeVars,
                 _pageNo, _pageSize, _totalRecords, server, models>>

NextCollection ==
  \/ \E pageNo \in PageArgs : SetPageNo("setPageNo", pageNo)
  \/ PrevPage
  \/ NextPage
  \/ \E ps \in PageSizes : SetPageSize(ps)
  \/ \E length \in Lengths : \E options \in ParseOptions : Parse(length, options)
  \/ \E length \in Lengths : Reset(length)
  \/ \E arg \in SortArgs : AddSort(arg[1], arg[2])
  \/ ResetSorts

SpecCollection == Init /\ [][NextCollection]_vars

----------------------------------------------------------------------------
(* Reading the history *)

Last == hist[Len(hist)]

IsSetCall(c) == c.op \in {"set", "setHash", "setArray", "setNull"}

DUndef == [t |-> "undefined", v |-> "", f |-> NoFields]
DNull  == [t |-> "null", v |-> "", f |-> NoFields]

IsMapping(d) == d.t \in {"Object", "Array"}

\* what a reader of a bag finds at a path, missing steps read as undefined
RECURSIVE DeepWalk(_, _)
DeepWalk(d, pcs) ==
  IF Len(pcs) = 0 THEN d
  ELSE IF IsMapping(d) /\ Head(pcs) \in DOMAIN d.f THEN DeepWalk(d.f[Head(pcs)], Tail(pcs))
  ELSE DUndef

DeepAt(bag, pcs) ==
  IF Head(pcs) \in DOMAIN bag THEN DeepWalk(bag[Head(pcs)], Tail(pcs)) ELSE DUndef

Prefix(pcs, n) == SubSeq(pcs, 1, n)

\* the top-level entry of a bag, or undefined
TopOf(bag, pcs) == DeepAt(bag, <<Head(pcs)>>)

NowBag == DeepBag(heap, attrs)

----------------------------------------------------------------------------
(* Claims about Model.set and Model.get *)

\* the last three calls were set(p, x); obj = get(p without its last piece);
\* set(p, y), with p of three or more pieces and y not deep-equal to x
SetGetSet ==
  /\ Len(hist) >= 3
  /\ LET s1 == hist[Len(hist) - 2]
         g  == hist[Len(hist) - 1]
         p  == Last.pairs[1].attribute
     IN /\ s1.op = "set" /\ g.op = "get" /\ Last.op = "set"
        /\ Len(p) >= 3
        /\ s1.pairs[1].attribute = p
        /\ g.pairs[1].attribute = Prefix(p, Len(p) - 1)
        /\ s1.pairs[1].value # Last.pairs[1].value

\* C1: set never mutates a nested mapping an earlier get returned: after
\* set(p, x), obj = get(parent of p), set(p, y) with y not deep-equal to x, obj
\* still holds x at the last piece of p and get(p) returns y
C1_NoRetroactiveMutation ==
  SetGetSet =>
    LET p == Last.pairs[1].attribute
    IN /\ Deep(heap, Prop(heap, held, p[Len(p)])) = hist[Len(hist) - 2].pairs[1].value
       /\ Deep(heap, get(heap, attrs, p)) = Last.pairs[1].value

\* C2: set(p, v) followed by get(p) returns a value deep-equal to v, for a
\* path of any number of pieces and any prior bag
C2_SetThenGet ==
  (Len(hist) >= 1 /\ Last.op = "set") =>
    Deep(heap, get(heap, attrs, Last.pairs[1].attribute)) = Last.pairs[1].value

\* the notifications of the last set call, by kind
PathEvents    == SelectSeq(events, LAMBDA e : e.kind = "change:")
GenericEvents == SelectSeq(events, LAMBDA e : e.kind = "change")

\* the pair of the last call a path belongs to (0 when none)
PairIndex(name) ==
  IF \E i \in 1..Len(Last.pairs) : Last.pairs[i].attribute = name
  THEN CHOOSE i \in 1..Len(Last.pairs) : Last.pairs[i].attribute = name
  ELSE 0

\* the per-path notifications are named after pairs of the call, one for a
\* pair at most, in the order of the pairs
InPairOrder ==
  /\ \A k \in 1..Len(PathEvents) : PairIndex(PathEvents[k].name) > 0
  /\ \A k, l \in 1..Len(PathEvents) :
       k < l => PairIndex(PathEvents[k].name) < PairIndex(PathEvents[l].name)

\* C3: a set call that changes at least one pair fires one change:<full path>
\* for each changed pair, then exactly one generic change after all of them,
\* and nothing named after a proper prefix of a path
C3_Notifications ==
  (Len(hist) >= 1 /\ IsSetCall(Last)) =>
    /\ InPairOrder
    /\ \A i \in 1..Len(Last.pairs) :
         TopOf(NowBag, Last.pairs[i].attribute) # TopOf(Last.before, Last.pairs[i].attribute)
           => \E k \in 1..Len(PathEvents) : PathEvents[k].name = Last.pairs[i].attribute
    /\ Len(GenericEvents) <= 1
    /\ (NowBag # Last.before \/ Len(PathEvents) > 0) =>
         /\ Len(GenericEvents) = 1
         /\ events[Len(events)].kind = "change"

\* C4 as stated: every change:<path> notification is fired after all pairs of
\* the call are committed, so its listener reads the new value of every pair
C4_FiredAfterAllPairs ==
  (Len(hist) >= 1 /\ IsSetCall(Last)) =>
    /\ InPairOrder
    /\ \A k \in 1..Len(PathEvents) : \A j \in 1..Len(Last.pairs) :
         DeepAt(PathEvents[k].seen, Last.pairs[j].attribute)
           = DeepAt(NowBag, Last.pairs[j].attribute)

\* C4 amended: every change:<path> notification is fired as soon as its own
\* pair is committed and before any later pair is processed: its listener
\* finds its own and the earlier pairs committed and the later pairs of the
\* call still at their old value; the notifications fire in pair order
C4_FiredAfterOwnPair ==
  (Len(hist) >= 1 /\ IsSetCall(Last)) =>
    /\ InPairOrder
    /\ \A k \in 1..Len(PathEvents) : \A j \in 1..Len(Last.pairs) :
         TopOf(PathEvents[k].seen, Last.pairs[j].attribute)
           = IF j > PairIndex(PathEvents[k].name)
             THEN TopOf(Last.before, Last.pairs[j].attribute)
             ELSE TopOf(NowBag, Last.pairs[j].attribute)

\* a set of two pairs that both changed the bag
C4_Witness ==
  /\ Len(hist) >= 1 /\ Last.op = "setHash" /\ ~threw
  /\ Len(PathEvents) = 2
  /\ TopOf(PathEvents[1].seen, Last.pairs[2].attribute)
       # TopOf(NowBag, Last.pairs[2].attribute)

\* C5: set(p, v) right after a set(p, v) that stored v is a no-op for a path
\* of any number of pieces: the bag is unchanged and no notification is fired
C5_ResetIsNoOp ==
  (/\ Len(hist) >= 2
   /\ hist[Len(hist) - 1].op = "set" /\ Last.op = "set"
   /\ ~hist[Len(hist) - 1].threw
   /\ hist[Len(hist) - 1].pairs = Last.pairs)
    => (events = <<>> /\ NowBag = Last.before /\ ~threw)

\* C6: set never throws, whatever its first argument and whatever the bag holds
C6_SetNeverThrows ==
  (Len(hist) >= 1 /\ (IsSetCall(Last) \/ Last.op = "setOther")) => ~threw

\* some value on the way to the last piece of the path is not a mapping
Stops(bag, pcs) ==
  \E n \in 1..(Len(pcs) - 1) : ~IsMapping(DeepAt(bag, Prefix(pcs, n)))

\* the first such value
FirstStop(bag, pcs) ==
  LET n == CHOOSE n \in 1..(Len(pcs) - 1) :
             /\ ~IsMapping(DeepAt(bag, Prefix(pcs, n)))
             /\ \A m \in 1..(n - 1) : IsMapping(DeepAt(bag, Prefix(pcs, m)))
  IN DeepAt(bag, Prefix(pcs, n))

\* C7 as stated: get never throws, leaves the bag alone, and returns an
\* absent value when the top-level key was never set or a value on the path
\* is null, absent or a scalar
C7_GetAbsent ==
  (Len(hist) >= 1 /\ Last.op = "get") =>
    LET p == Last.pairs[1].attribute
    IN /\ ~threw
       /\ NowBag = Last.before
       /\ (Stops(NowBag, p) \/ Head(p) \notin DOMAIN NowBag) => held = Undef

\* C7 amended: as C7, but the value returned when the traversal stops at a
\* null is that null; it is undefined when it stops at an absent value or
\* a scalar
C7_GetNullish ==
  (Len(hist) >= 1 /\ Last.op = "get") =>
    LET p == Last.pairs[1].attribute
    IN /\ ~threw
       /\ NowBag = Last.before
       /\ Head(p) \notin DOMAIN NowBag => held = Undef
       /\ Stops(NowBag, p) =>
            held = IF FirstStop(NowBag, p) = DNull THEN Null ELSE Undef

\* a get of a nested path whose top-level value is null
C7_Witness ==
  /\ Len(hist) >= 1 /\ Last.op = "get" /\ ~threw
  /\ Len(Last.pairs[1].attribute) >= 2
  /\ Stops(NowBag, Last.pairs[1].attribute)
  /\ FirstStop(NowBag, Last.pairs[1].attribute) = DNull
  /\ held = Null

\* the keys of a mapping, none for any other value
KeysOf(d) == IF IsMapping(d) THEN DOMAIN d.f ELSE {}

\* C13: a set on a nested path p of any number of pieces changes only the
\* value at p: every other top-level attribute, and every key of the mappings
\* along p other than the next piece of p, reads back as before the call
C13_SiblingsUnchanged ==
  (Len(hist) >= 1 /\ Last.op = "set" /\ ~threw /\ Len(Last.pairs[1].attribute) >= 2) =>
    LET p == Last.pairs[1].attribute
    IN /\ \A k \in (DOMAIN Last.before) \ {p[1]} :
            DeepAt(NowBag, <<k>>) = DeepAt(Last.before, <<k>>)
       /\ \A n \in 1..(Len(p) - 1) :
            \A k \in KeysOf(DeepAt(Last.before, Prefix(p, n))) \ {p[n + 1]} :
              DeepAt(NowBag, Append(Prefix(p, n), k))
                = DeepAt(Last.before, Append(Prefix(p, n), k))

----------------------------------------------------------------------------
(* Claims about decode *)

\* n steps along "next"
RECURSIVE Nav(_, _, _)
Nav(h, x, n) == IF n = 0 THEN x ELSE Nav(h, Prop(h, x, "next"), n - 1)

\* the value at depth j of chain i, in a payload or in what it decoded to
At(h, root, i, j) ==
  Nav(h, IF isArray(h, root) THEN Prop(h, root, IndexOrder[i]) ELSE root, j - 1)

InAt(pos)  == At(heap, input, pos[1], pos[2])
OutAt(pos) == At(heap, output, pos[1], pos[2])

Positions == (1..3) \X (1..4)

IdOf(pos)  == Prop(heap, InAt(pos), "@id")
RefOf(pos) == Prop(heap, InAt(pos), "@ref")

\* the nodes of the payload the decoder is meant to decode: those that are
\* not below a node carrying a reference
Visited(pos) ==
  /\ (pos[1] = 1 \/ isArray(heap, input))
  /\ IsRef(InAt(pos))
  /\ \A m \in 1..(pos[2] - 1) : nullOrUndefined(RefOf(<<pos[1], m>>))

IsIdNode(pos)  == Visited(pos) /\ nullOrUndefined(RefOf(pos)) /\ ~nullOrUndefined(IdOf(pos))
IsRefNode(pos) == Visited(pos) /\ ~nullOrUndefined(RefOf(pos))

\* N is an ancestor of R or is visited before it
Earlier(N, R) == N[1] < R[1] \/ (N[1] = R[1] /\ N[2] < R[2])

\* ids are compared as strings
SameId(x, y) == x.v = y.v

\* N is the only node carrying its id
OnlyCarrier(N) ==
  \A M \in Positions : (IsIdNode(M) /\ SameId(IdOf(M), IdOf(N))) => M = N

\* R refers to the id that N, earlier, carries
RefersTo(R, N) ==
  /\ IsIdNode(N) /\ IsRefNode(R) /\ Earlier(N, R)
  /\ SameId(IdOf(N), RefOf(R)) /\ OnlyCarrier(N)

\* the object made for the node at pos: a new object, marked decoded
Produced(pos) ==
  /\ IsRef(OutAt(pos))
  /\ OutAt(pos).a > Len(base)
  /\ Prop(heap, OutAt(pos), JSOG_OBJECT_DECODED) = Bool("true")

\* C8 as stated: a node carrying a reference decodes to the very object made
\* for the node carrying that id, for any string or number id, the id node
\* being an earlier sibling or an ancestor
C8_RefIsSameObject ==
  dop = "decode" =>
    \A N, R \in Positions :
      RefersTo(R, N) => (Produced(N) /\ OutAt(R) = OutAt(N))

\* C8 amended: as C8, for any id that is a number or a non-empty string
C8_RefIsSameObjectNonEmptyId ==
  dop = "decode" =>
    \A N, R \in Positions :
      (RefersTo(R, N) /\ IdOf(N).v # "") => (Produced(N) /\ OutAt(R) = OutAt(N))

\* the cycle A -> B -> C -> A, A carrying the number 1 and the reference "1"
C8_Witness ==
  /\ dop = "decode"
  /\ RefersTo(<<1, 4>>, <<1, 1>>)
  /\ IdOf(<<1, 1>>) = Num("1") /\ RefOf(<<1, 4>>) = Str("1")
  /\ Produced(<<1, 1>>)
  /\ Nav(heap, output, 3) = output

\* C9: decode of what decode returned gives back the same objects: a decoded
\* object is returned by identity, nothing is visited, changed or copied (an
\* array is rebuilt around the same elements)
C9_DecodeAgainIsIdentity ==
  dop = "again" =>
    /\ SubSeq(heap, 1, Len(base)) = base
    /\ IF isArray(base, input)
       THEN /\ isArray(heap, output)
            /\ heap[output.a].f = base[input.a].f
            /\ Len(heap) = Len(base) + 1
       ELSE /\ output = input
            /\ heap = base

\* decode applied to a decoded cycle of three objects
C9_Witness ==
  /\ dop = "again"
  /\ IsRef(output)
  /\ Nav(heap, output, 1) # output /\ Nav(heap, output, 2) # output
  /\ Nav(heap, output, 3) = output

\* C10: a reference resolves only against ids registered earlier in the same
\* decode call; a reference to an id not defined in this call, even one an
\* earlier call defined, decodes to undefined and decode does not fail
C10_UnknownRefIsUndefined ==
  dop = "decode" =>
    /\ output # RangeError
    /\ \A R \in Positions :
         (IsRefNode(R) /\ ~\E N \in Positions :
                            IsIdNode(N) /\ Earlier(N, R) /\ SameId(IdOf(N), RefOf(R)))
           => OutAt(R) = Undef

\* a reference to an id that only an earlier decode call registered
C10_Witness ==
  /\ dop = "decode" /\ dcalls >= 2
  /\ \E R \in Positions :
       /\ IsRefNode(R)
       /\ RefOf(R).v \in prevIds
       /\ ~\E N \in Positions : IsIdNode(N) /\ SameId(IdOf(N), RefOf(R))
       /\ OutAt(R) = Undef

----------------------------------------------------------------------------
(* Claims about the collection *)

LastC == chist[Len(chist)]

\* the last page of a collection of n pages (page 0 when it has none)
LastPage(n) == max(0, n - 1)

\* C11: after any sequence of setPageNo, nextPage, prevPage, setPageSize,
\* parse and reset the page number is an integer, not less than 0 and not
\* more than max(0, getNumPages() - 1); nextPage on the last page and
\* prevPage on page 0 leave it unchanged
C11_PageNoInRange ==
  /\ _pageNo \in Int
  /\ _pageNo >= 0
  /\ _pageNo <= LastPage(getNumPages(server, _totalRecords, models, _pageSize))
  /\ (Len(chist) >= 1 /\ LastC.op = "nextPage" /\ LastC.pageNo = LastPage(LastC.numPages))
       => _pageNo = LastC.pageNo
  /\ (Len(chist) >= 1 /\ LastC.op = "prevPage" /\ LastC.pageNo = 0)
       => _pageNo = LastC.pageNo

\* C12: after any sequence of addSort and resetSorts calls the sorts array
\* holds at most maxSorts entries
C12_AtMostMaxSorts == Len(sorts) <= maxSorts

====
